---------------------------- MODULE Spec2Model ----------------------------
(***************************************************************************)
(* Model of data-eng-project.py: the event aggregator                      *)
(* (process_event_data, the global offensive_metrics) and the staged       *)
(* loader of main() (staging table, production table, the two             *)
(* transactions of the psycopg2 connection).                               *)
(***************************************************************************)
EXTENDS Integers, Sequences, FiniteSets, TLC

VARIABLES
    pc,                 \* position of main()
    events,             \* the records of the fetched files, in fetch order
    idx,                \* index of the next record of the for loop (line 49)
    offensive_metrics,  \* the module-level defaultdict (lines 26-37)
    conn,               \* "none" | "open" | "closed"
    txn,                \* the store as seen inside the connection's transaction
    committed,          \* the store as any other reader sees it
    prior,              \* the committed store when the run started
    log                 \* what was executed on the connection, in order

vars == <<pc, events, idx, offensive_metrics, conn, txn, committed, prior, log>>

----------------------------------------------------------------------------
(* Bounds *)

\* longest record sequence of an aggregation-only behaviour
MaxEvents == 2
\* longest record sequence of a whole run of main()
MaxRunEvents == 2

----------------------------------------------------------------------------
(* JSON values of an event record *)

\* dict.get(key) of an absent key, or a JSON null, where an id is read
NoneId == -1
\* a JSON null / Python None where a string is read
NullName == "<None>"
\* the key is not in the dict
MissingKey == "<missing>"
\* the value is there and is no dict (null, a list, a string, a number)
WrongType == "<wrong>"

NoPlayer == [kind |-> "missing", id |-> NoneId, name |-> NullName]
NullPlayer == [kind |-> "null", id |-> NoneId, name |-> NullName]
PlayerOf(id, name) == [kind |-> "dict", id |-> id, name |-> name]

\* the value under the key named after the event type: "shot", "pass", "dribble"
NoDetail ==
    [kind |-> "missing", outcome |-> MissingKey,
     goal_assist |-> FALSE, shot_assist |-> FALSE, cross |-> FALSE]
WrongDetail == [NoDetail EXCEPT !.kind = "wrong"]
Outcome(name) == [NoDetail EXCEPT !.kind = "dict", !.outcome = name]
PassFlags(a, k, c) ==
    [NoDetail EXCEPT !.kind = "dict", !.goal_assist = a, !.shot_assist = k, !.cross = c]

Ev(type, player, detail) == [type |-> type, player |-> player, detail |-> detail]

\* every payload shape per event type; MissingKey as a type is a record without "type"
TypedDetails ==
    ({"Shot"} \X {NoDetail, WrongDetail, Outcome("Goal"), Outcome("Saved"),
                  Outcome("Off T"), Outcome(WrongType), Outcome(MissingKey)})
    \cup ({"Pass"} \X ({NoDetail, WrongDetail}
                       \cup {PassFlags(a, k, c) : a, k, c \in BOOLEAN}))
    \cup ({"Dribble"} \X {NoDetail, WrongDetail, Outcome("Complete"),
                          Outcome("Incomplete")})
    \cup ({"Foul Committed", MissingKey} \X {NoDetail})

CoreTypedDetails ==
    {<<"Shot", Outcome("Goal")>>, <<"Shot", WrongDetail>>,
     <<"Pass", PassFlags(TRUE, TRUE, TRUE)>>,
     <<"Dribble", Outcome("Complete")>>, <<MissingKey, NoDetail>>}

OtherPlayers ==
    {NoPlayer, NullPlayer, PlayerOf(NoneId, "A"), PlayerOf(0, "Z"),
     PlayerOf(1, NullName), PlayerOf(2, "B")}

EventSet ==
    {Ev(td[1], PlayerOf(1, "A"), td[2]) : td \in TypedDetails}
    \cup {Ev(td[1], p, td[2]) : td \in CoreTypedDetails, p \in OtherPlayers}

SeqsUpTo(S, n) == UNION {[1..k -> S] : k \in 0..n}

----------------------------------------------------------------------------
(* The aggregator: process_event_data *)

Counters ==
    {"goals", "assists", "shots", "shots_on_target", "dribbles_completed",
     "key_passes", "crosses"}

\* the default factory of offensive_metrics
NewEntry ==
    [name |-> NullName, goals |-> 0, assists |-> 0, shots |-> 0,
     shots_on_target |-> 0, dribbles_completed |-> 0, key_passes |-> 0,
     crosses |-> 0]

EmptyMetrics == [k \in {} |-> NewEntry]

\* offensive_metrics[k]: a defaultdict makes the entry when the key is new
Entry(m, k) == IF k \in DOMAIN m THEN m[k] ELSE NewEntry

Put(m, k, row) == [x \in DOMAIN m \cup {k} |-> IF x = k THEN row ELSE m[x]]

\* offensive_metrics[k][field] += 1
Bump(m, k, field) == Put(m, k, [Entry(m, k) EXCEPT ![field] = @ + 1])

BumpIf(cond, m, k, field) == IF cond THEN Bump(m, k, field) ELSE m

SetNameResets(m, k, name) == Put(m, k, [NewEntry EXCEPT !.name = name])

SetNameFirstSeen(m, k, name) ==
    IF k \in DOMAIN m THEN m ELSE Put(m, k, [NewEntry EXCEPT !.name = name])

\* offensive_metrics[k]["name"] = name
SetName(m, k, name) == Put(m, k, [Entry(m, k) EXCEPT !.name = name])

Ok(m) == [m |-> m, exc |-> "none"]
Raised(m, exc) == [m |-> m, exc |-> exc]

\* event.get(key, {}).get("outcome", {}).get("name") raises when the payload
\* or its outcome is no dict
OutcomeRaises(d) == d.kind = "wrong" \/ (d.kind = "dict" /\ d.outcome = WrongType)

OutcomeName(d) ==
    IF d.kind = "dict" /\ d.outcome # MissingKey THEN d.outcome ELSE NullName

NotPlayerIdNever(player_id) == FALSE

\* not player_id
NotPlayerId(player_id) == player_id = NoneId \/ player_id = 0

ShotBranchSavedOnly(m, k, d) ==
    LET m1 == Bump(m, k, "shots")
    IN  IF OutcomeRaises(d) THEN Raised(m1, "AttributeError")
        ELSE LET m2 == BumpIf(OutcomeName(d) = "Goal", m1, k, "goals")
             IN  Ok(BumpIf(OutcomeName(d) = "Saved", m2, k, "shots_on_target"))

ShotBranch(m, k, d) ==
    LET m1 == Bump(m, k, "shots")
    IN  IF OutcomeRaises(d) THEN Raised(m1, "AttributeError")
        ELSE LET m2 == BumpIf(OutcomeName(d) = "Goal", m1, k, "goals")
             IN  Ok(BumpIf(OutcomeName(d) \in {"Goal", "Saved"}, m2, k,
                           "shots_on_target"))

PassBranch(m, k, d) ==
    IF d.kind = "wrong" THEN Raised(m, "AttributeError")
    ELSE LET m1 == BumpIf(d.kind = "dict" /\ d.goal_assist, m, k, "assists")
             m2 == BumpIf(d.kind = "dict" /\ d.shot_assist, m1, k, "key_passes")
         IN  Ok(BumpIf(d.kind = "dict" /\ d.cross, m2, k, "crosses"))

DribbleBranch(m, k, d) ==
    IF OutcomeRaises(d) THEN Raised(m, "AttributeError")
    ELSE Ok(BumpIf(OutcomeName(d) = "Complete", m, k, "dribbles_completed"))

\* the body of the try of one iteration
TryBody(m, e) ==
    IF e.type = MissingKey THEN Raised(m, "KeyError")
    ELSE IF e.player.kind = "null" THEN Raised(m, "AttributeError")
    ELSE LET player_id == IF e.player.kind = "dict" THEN e.player.id ELSE NoneId
             player_name == IF e.player.kind = "dict" THEN e.player.name ELSE NullName
         IN  IF NotPlayerId(player_id) THEN Ok(m)
             ELSE LET m1 == SetName(m, player_id, player_name)
                  IN  CASE e.type = "Shot" -> ShotBranch(m1, player_id, e.detail)
                        [] e.type = "Pass" -> PassBranch(m1, player_id, e.detail)
                        [] e.type = "Dribble" -> DribbleBranch(m1, player_id, e.detail)
                        [] OTHER -> Ok(m1)

CatchesKeyErrorOnly(exc) == exc = "KeyError"

\* except Exception
Catches(exc) == exc \in {"KeyError", "AttributeError", "TypeError"}

\* the loop of process_event_data over a whole sequence, as a fold;
\* the result is the metrics, or the fault that left the loop
RECURSIVE Fold(_, _)
Fold(m, s) ==
    IF s = <<>> THEN Ok(m)
    ELSE LET r == TryBody(m, Head(s))
         IN  IF r.exc # "none" /\ ~Catches(r.exc) THEN r
             ELSE Fold(r.m, Tail(s))

Aggregate(s) == Fold(EmptyMetrics, s).m


----------------------------------------------------------------------------
(* The exporter and the store: DataFrame, to_csv, COPY, the SQL statements *)

Digits == <<"0", "1", "2", "3", "4", "5", "6", "7", "8", "9">>

\* an integer as to_csv writes it: its decimal digits
RECURSIVE IntToText(_)
IntToText(n) ==
    IF n < 10 THEN <<Digits[n + 1]>>
    ELSE IntToText(n \div 10) \o <<Digits[(n % 10) + 1]>>

DigitValue(c) == CHOOSE v \in 0..9 : Digits[v + 1] = c

IsIntText(t) == Len(t) > 0 /\ \A i \in 1..Len(t) : \E v \in 0..9 : Digits[v + 1] = t[i]

\* text::int
RECURSIVE TextToInt(_)
TextToInt(t) ==
    IF Len(t) = 1 THEN DigitValue(t[1])
    ELSE 10 * TextToInt(SubSeq(t, 1, Len(t) - 1)) + DigitValue(t[Len(t)])

\* the columns of the default factory's dict, after the index column
FullColumns ==
    <<"player_id", "name", "goals", "assists", "shots", "shots_on_target",
      "dribbles_completed", "key_passes", "crosses">>

\* df.columns: from_dict of an empty dict has no columns but the index
DfColumns(m) == IF DOMAIN m = {} THEN <<"player_id">> ELSE FullColumns

\* one line of the CSV: every value as text
CsvRow(k, entry) ==
    [player_id |-> IntToText(k), name |-> entry.name,
     goals |-> IntToText(entry.goals), assists |-> IntToText(entry.assists),
     shots |-> IntToText(entry.shots),
     shots_on_target |-> IntToText(entry.shots_on_target),
     dribbles_completed |-> IntToText(entry.dribbles_completed),
     key_passes |-> IntToText(entry.key_passes),
     crosses |-> IntToText(entry.crosses)]

\* the rows of a relation have no order of their own: the CSV is written here
\* by ascending key
RECURSIVE KeysInOrder(_)
KeysInOrder(S) ==
    IF S = {} THEN <<>>
    ELSE LET k == CHOOSE x \in S : \A y \in S : x <= y
         IN  <<k>> \o KeysInOrder(S \ {k})

CsvRows(m) ==
    LET ks == KeysInOrder(DOMAIN m)
    IN  [i \in 1..Len(ks) |-> CsvRow(ks[i], m[ks[i]])]

AbsentTable == [exists |-> FALSE, columns |-> <<>>, rows |-> <<>>]

drop_table_skipped(store, table_name) == store

\* DROP TABLE IF EXISTS
drop_table(store, table_name) == [store EXCEPT ![table_name] = AbsentTable]

\* CREATE TABLE IF NOT EXISTS, every column VARCHAR(255)
create_table(store, table_name, columns) ==
    IF store[table_name].exists THEN store
    ELSE [store EXCEPT ![table_name] =
              [exists |-> TRUE, columns |-> columns, rows |-> <<>>]]

\* COPY staging FROM csv
CopyErrors(store, columns) ==
    ~store.staging.exists \/ store.staging.columns # columns

copy_sql(store, rows) == [store EXCEPT !.staging.rows = @ \o rows]

CastColumns ==
    {"goals", "assists", "shots", "shots_on_target", "dribbles_completed",
     "key_passes", "crosses"}

\* one selected row: the counters cast to int, then stored in the VARCHAR
\* columns of the production table
CastRow(r) ==
    [c \in DOMAIN r |-> IF c \in CastColumns THEN IntToText(TextToInt(r[c])) ELSE r[c]]

\* INSERT INTO prod SELECT ...::int FROM staging
InsertErrors(store) ==
    \/ ~store.staging.exists
    \/ ~store.prod.exists
    \/ store.staging.columns # FullColumns
    \/ Len(store.prod.columns) < Len(FullColumns)
    \/ \E i \in 1..Len(store.staging.rows) :
           \E c \in CastColumns : ~IsIntText(store.staging.rows[i][c])

insert_into_prod_table(store) ==
    [store EXCEPT !.prod.rows =
        @ \o [i \in 1..Len(store.staging.rows) |-> CastRow(store.staging.rows[i])]]

\* the two relations as a run on the records s leaves them when it promotes
StagingAfter(s) ==
    [exists |-> TRUE, columns |-> DfColumns(Aggregate(s)), rows |-> CsvRows(Aggregate(s))]

ProdAfter(s) ==
    LET rows == CsvRows(Aggregate(s))
    IN  [exists |-> TRUE, columns |-> DfColumns(Aggregate(s)),
         rows |-> [i \in 1..Len(rows) |-> CastRow(rows[i])]]

EmptyStore == [staging |-> AbsentTable, prod |-> AbsentTable]

\* the records of the runs of main() that are explored
RunEventSet ==
    {Ev("Shot", PlayerOf(1, "A"), Outcome("Goal")),
     Ev("Pass", PlayerOf(2, "B"), PassFlags(TRUE, TRUE, FALSE)),
     Ev("Foul Committed", NoPlayer, NoDetail)}

\* the records of an earlier run on other events
EarlierEvents == <<Ev("Dribble", PlayerOf(3, "C"), Outcome("Complete"))>>

PriorStaging(s) == {AbsentTable, StagingAfter(<<>>), StagingAfter(EarlierEvents), StagingAfter(s)}
PriorProd(s) == {AbsentTable, ProdAfter(<<>>), ProdAfter(EarlierEvents), ProdAfter(s)}

----------------------------------------------------------------------------
(* main() *)

Stmt(name, ok) == [stmt |-> name, ok |-> ok]

AfterOuterExceptSkipsClose == "done"

\* except Exception (line 189) falls into the finally
AfterOuterExcept == "close"

\* a run of main() on a few records, over every store an earlier run can leave
Init ==
    /\ pc = "aggregate"
    /\ events \in SeqsUpTo(RunEventSet, MaxRunEvents)
    /\ idx = 1
    /\ offensive_metrics = EmptyMetrics
    /\ conn = "none"
    /\ \E st \in PriorStaging(events), pr \in PriorProd(events) :
           prior = [staging |-> st, prod |-> pr]
    /\ committed = prior
    /\ txn = prior
    /\ log = <<>>

\* the aggregation alone, over every record shape
InitAgg ==
    /\ pc = "aggregate"
    /\ events \in SeqsUpTo(EventSet, MaxEvents)
    /\ idx = 1
    /\ offensive_metrics = EmptyMetrics
    /\ conn = "none"
    /\ prior = EmptyStore
    /\ committed = prior
    /\ txn = prior
    /\ log = <<>>

\* one iteration of the for loop of process_event_data: the try body and its handler
ProcessRecord ==
    /\ pc = "aggregate"
    /\ idx <= Len(events)
    /\ LET r == TryBody(offensive_metrics, events[idx])
       IN  /\ offensive_metrics' = r.m
           /\ IF r.exc = "none" \/ Catches(r.exc)
              THEN pc' = pc /\ idx' = idx + 1
              ELSE pc' = "crashed" /\ idx' = idx
    /\ UNCHANGED <<events, conn, txn, committed, prior, log>>

\* the loops end; the DataFrame is built from offensive_metrics
EndOfBatch ==
    /\ pc = "aggregate"
    /\ idx > Len(events)
    /\ pc' = "connect"
    /\ UNCHANGED <<events, idx, offensive_metrics, conn, txn, committed, prior, log>>

\* psycopg2.connect, outside the try
Connect ==
    /\ pc = "connect"
    /\ \E fails \in BOOLEAN :
           IF fails THEN pc' = "crashed" /\ conn' = conn
           ELSE pc' = "drop_staging" /\ conn' = "open"
    /\ UNCHANGED <<events, idx, offensive_metrics, txn, committed, prior, log>>

\* a statement of the cursor: it changes the transaction's view or raises
Execute(at, name, errors, after, okPc, failPc) ==
    /\ pc = at
    /\ \E fails \in BOOLEAN :
           IF fails \/ errors
           THEN /\ txn' = txn
                /\ log' = Append(log, Stmt(name, FALSE))
                /\ pc' = failPc
           ELSE /\ txn' = after
                /\ log' = Append(log, Stmt(name, TRUE))
                /\ pc' = okPc
    /\ UNCHANGED <<events, idx, offensive_metrics, conn, committed, prior>>

DropStaging ==
    Execute("drop_staging", "DROP staging", FALSE, drop_table(txn, "staging"),
            "create_staging", "except")

CreateStaging ==
    Execute("create_staging", "CREATE staging", FALSE,
            create_table(txn, "staging", DfColumns(offensive_metrics)),
            "to_csv", "except")

\* df.to_csv: no statement of the connection
ToCsv ==
    /\ pc = "to_csv"
    /\ \E fails \in BOOLEAN : pc' = IF fails THEN "except" ELSE "copy"
    /\ UNCHANGED <<events, idx, offensive_metrics, conn, txn, committed, prior, log>>

Copy ==
    Execute("copy", "COPY", CopyErrors(txn, DfColumns(offensive_metrics)),
            copy_sql(txn, CsvRows(offensive_metrics)), "drop_prod", "rollback_copy")

DropProd ==
    Execute("drop_prod", "DROP prod", FALSE, drop_table(txn, "prod"),
            "create_prod", "rollback_copy")

CreateProd ==
    Execute("create_prod", "CREATE prod", FALSE,
            create_table(txn, "prod", DfColumns(offensive_metrics)),
            "commit_copy", "rollback_copy")

\* conn.commit()
Commit(at, next) ==
    /\ pc = at
    /\ committed' = txn
    /\ log' = Append(log, Stmt("COMMIT", TRUE))
    /\ pc' = next
    /\ UNCHANGED <<events, idx, offensive_metrics, conn, txn, prior>>

\* conn.rollback()
Rollback(at, next) ==
    /\ pc = at
    /\ txn' = committed
    /\ log' = Append(log, Stmt("ROLLBACK", TRUE))
    /\ pc' = next
    /\ UNCHANGED <<events, idx, offensive_metrics, conn, committed, prior>>

CommitCopy == Commit("commit_copy", "insert")

\* the handler of the first inner try; the run goes on to the second try
RollbackCopy == Rollback("rollback_copy", "insert")

Insert ==
    Execute("insert", "INSERT", InsertErrors(txn), insert_into_prod_table(txn),
            "commit_insert", "rollback_insert")

CommitInsert == Commit("commit_insert", "close")

RollbackInsert == Rollback("rollback_insert", "close")

\* the handler of the outer try
OuterExcept ==
    /\ pc = "except"
    /\ pc' = AfterOuterExcept
    /\ UNCHANGED <<events, idx, offensive_metrics, conn, txn, committed, prior, log>>

\* finally: conn.close(); an open transaction is discarded
Close ==
    /\ pc = "close"
    /\ conn' = "closed"
    /\ txn' = committed
    /\ pc' = "done"
    /\ UNCHANGED <<events, idx, offensive_metrics, committed, prior, log>>

NextAgg == ProcessRecord \/ EndOfBatch

Next ==
    \/ ProcessRecord
    \/ EndOfBatch
    \/ Connect
    \/ DropStaging
    \/ CreateStaging
    \/ ToCsv
    \/ Copy
    \/ DropProd
    \/ CreateProd
    \/ CommitCopy
    \/ RollbackCopy
    \/ Insert
    \/ CommitInsert
    \/ RollbackInsert
    \/ OuterExcept
    \/ Close

Spec == Init /\ [][Next]_vars

SpecAgg == InitAgg /\ [][NextAgg]_vars

\* every call of main() returns: the interpreter runs the next statement
FairSpec == Spec /\ WF_vars(Next)

----------------------------------------------------------------------------
(* What the claims speak of *)

Did(name, ok) == \E i \in DOMAIN log : log[i] = Stmt(name, ok)

\* the first inner try ran to its commit (line 173): the load is durable
Staged ==
    \E i \in DOMAIN log :
        i > 1 /\ log[i] = Stmt("COMMIT", TRUE) /\ log[i - 1] = Stmt("CREATE prod", TRUE)

RunEnded == pc = "done"

RowsOf(t, k) == {i \in DOMAIN t.rows : t.rows[i].player_id = IntToText(k)}

\* the table holds one row per entry of offensive_metrics, with its name and
\* its counter values, and no other row
HoldsAggregate(t) ==
    /\ t.exists
    /\ Len(t.rows) = Cardinality(DOMAIN offensive_metrics)
    /\ \A k \in DOMAIN offensive_metrics :
           /\ Cardinality(RowsOf(t, k)) = 1
           /\ \A i \in RowsOf(t, k) :
                  /\ t.rows[i].name = offensive_metrics[k].name
                  /\ \A c \in Counters :
                         /\ IsIntText(t.rows[i][c])
                         /\ TextToInt(t.rows[i][c]) = offensive_metrics[k][c]

\* C1: every committed state between the opening and the closing of the
\* connection shows the production table either as it was before the run or
\* holding the whole aggregate of this run.
C1_ProdNeverPartial ==
    conn = "open" => (committed.prod = prior.prod \/ HoldsAggregate(committed.prod))

\* C2: when the COPY into staging fails, the run ends with the staging write
\* rolled back and the production table as it was before the run.
C2_CopyFailureLeavesProd ==
    (RunEnded /\ Did("COPY", FALSE))
        => (committed.staging = prior.staging /\ committed.prod = prior.prod)

\* C3: when the load is staged and the insert-and-cast fails, the run ends with
\* the production table absent or as it was before the run, and the staging
\* table holding this run's rows.
C3_InsertFailureRollsBackProd ==
    (RunEnded /\ Staged /\ Did("INSERT", FALSE))
        => /\ (~committed.prod.exists \/ committed.prod = prior.prod)
           /\ committed.staging.exists
           /\ committed.staging.rows = CsvRows(offensive_metrics)

\* C4: when the load is staged and the insert-and-cast succeeds, the committed
\* production table holds exactly one row per entry of this run's aggregate,
\* with the same counter values, and no row of an earlier run.
C4_PromotedProdIsThisRun ==
    (pc \in {"close", "done"} /\ Staged /\ Did("INSERT", TRUE))
        => HoldsAggregate(committed.prod)

C4_Witness ==
    /\ RunEnded /\ Staged /\ Did("INSERT", TRUE)
    /\ Cardinality(DOMAIN offensive_metrics) = 2
    /\ prior.prod = ProdAfter(events)
    /\ prior.staging = StagingAfter(events)

\* C5: whatever steps fail, the run ends with no production table, with the
\* production table as it was before the run, or with the production table
\* holding exactly this run's aggregate.
C5_ThreeEndStates ==
    RunEnded => \/ ~committed.prod.exists
                \/ committed.prod = prior.prod
                \/ HoldsAggregate(committed.prod)

\* C6: once the connection is open, every path of the run closes it, and
\* nothing is executed on it after the close.
C6_ConnectionAlwaysClosed ==
    /\ (conn = "open") ~> (conn = "closed")
    /\ [][conn = "closed" =>
            (conn' = "closed" /\ log' = log /\ txn' = txn /\ committed' = committed)]_vars

C6_Witness ==
    /\ conn = "closed"
    /\ Did("CREATE staging", FALSE)

PlayerAbsent(e) == e.player.kind \in {"missing", "null"} \/ e.player.id = NoneId

\* C7: a record whose player or player id is absent makes no entry (none keyed
\* by the absent id), leaves every entry as it was, and the loop goes on to the
\* next record.
C7_AbsentPlayerSkipped ==
    /\ [](NoneId \notin DOMAIN offensive_metrics)
    /\ [][(pc = "aggregate" /\ idx <= Len(events) /\ PlayerAbsent(events[idx]))
            => (offensive_metrics' = offensive_metrics /\ idx' = idx + 1
                /\ pc' = "aggregate")]_vars

C7_Witness ==
    /\ pc = "aggregate"
    /\ idx = 3
    /\ PlayerAbsent(events[1])
    /\ ~PlayerAbsent(events[2])
    /\ DOMAIN offensive_metrics # {}

\* C8: after the aggregation every non-null player id carried by a record
\* (0 included) keys an entry; stated for the records whose processing raises
\* nothing, the reading most favourable to the code.
C8_EveryIdHasEntry ==
    pc = "connect" =>
        \A i \in DOMAIN events :
            (events[i].player.kind = "dict" /\ events[i].player.id # NoneId
             /\ TryBody(EmptyMetrics, events[i]).exc = "none")
                => events[i].player.id \in DOMAIN offensive_metrics

Perms(n) == {f \in [1..n -> 1..n] : \A a, b \in 1..n : f[a] = f[b] => a = b}

CountersOf(row) == [c \in Counters |-> row[c]]

\* C9: aggregating any permutation of the records gives the same player ids and
\* the same seven counters per player.
C9_CountersOrderIndependent ==
    pc = "connect" =>
        \A f \in Perms(Len(events)) :
            LET m == Aggregate([i \in 1..Len(events) |-> events[f[i]]])
            IN  /\ DOMAIN m = DOMAIN offensive_metrics
                /\ \A k \in DOMAIN m : CountersOf(m[k]) = CountersOf(offensive_metrics[k])

C9_Witness ==
    /\ pc = "connect"
    /\ Len(events) = 2
    /\ TryBody(EmptyMetrics, events[1]).exc # "none"
    /\ \E k \in DOMAIN offensive_metrics :
           /\ offensive_metrics[k].shots = 2
           /\ Aggregate(<<events[2], events[1]>>)[k].name # offensive_metrics[k].name

\* missing type, null player, missing or wrongly typed nested payload
Malformed(e) ==
    \/ e.type = MissingKey
    \/ e.player.kind = "null"
    \/ /\ e.type \in {"Shot", "Pass", "Dribble"}
       /\ \/ e.detail.kind \in {"missing", "wrong"}
          \/ /\ e.type \in {"Shot", "Dribble"}
             /\ e.detail.outcome \in {MissingKey, WrongType}

NamedIn(e) == IF e.player.kind = "dict" THEN e.player.id ELSE NoneId

Count(m, k, c) == IF k \in DOMAIN m THEN m[k][c] ELSE 0

\* C10: no fault leaves the loop; and for every malformed record already
\* processed, the records after it had the effect they have without it: every
\* other player's entry is what it is without the malformed record, and the
\* named player's counters differ only by what the malformed record itself added.
C10_MalformedNeverAborts ==
    /\ pc # "crashed"
    /\ \A i \in 1..(idx - 1) :
           Malformed(events[i]) =>
               LET before == Aggregate(SubSeq(events, 1, i - 1))
                   after == TryBody(before, events[i]).m
                   without == Fold(before, SubSeq(events, i + 1, idx - 1)).m
               IN  /\ \A k \in (DOMAIN offensive_metrics \cup DOMAIN without) \ {NamedIn(events[i])} :
                          /\ k \in DOMAIN offensive_metrics
                          /\ k \in DOMAIN without
                          /\ offensive_metrics[k] = without[k]
                   /\ \A k \in DOMAIN offensive_metrics : \A c \in Counters :
                          Count(offensive_metrics, k, c) - Count(without, k, c)
                              = Count(after, k, c) - Count(before, k, c)

C10_Witness ==
    /\ pc = "connect"
    /\ Len(events) = 2
    /\ Malformed(events[1])
    /\ TryBody(EmptyMetrics, events[1]).exc = "AttributeError"
    /\ NamedIn(events[1]) = 1
    /\ DOMAIN offensive_metrics = {1, 2}
    /\ offensive_metrics[2].goals = 1

OnProd == {"DROP prod", "CREATE prod", "INSERT"}

\* C11: the INSERT into production is executed only once the load is staged
\* (COPY succeeded and was committed), and after a failed COPY no statement
\* touches the production table.
C11_PromoteOnlyAfterStaging ==
    \A j \in DOMAIN log :
        /\ log[j].stmt = "INSERT" =>
               \E i \in 2..(j - 1) :
                   /\ log[i] = Stmt("COMMIT", TRUE)
                   /\ log[i - 1] = Stmt("CREATE prod", TRUE)
        /\ \A i \in 1..(j - 1) :
               log[i] = Stmt("COPY", FALSE) => log[j].stmt \notin OnProd

Parsed(e) == TryBody(EmptyMetrics, e).exc = "none"

\* C12: a record whose processing raises is skipped as a whole: at the end the
\* counters of every player are those of the records that raise nothing.
C12_RaisingRecordSkippedWhole ==
    pc = "connect" =>
        LET m == Aggregate(SelectSeq(events, Parsed))
        IN  \A k \in DOMAIN offensive_metrics \cup DOMAIN m : \A c \in Counters :
                Count(offensive_metrics, k, c) = Count(m, k, c)

\* the loop is about to process the record e
Processing(e) == pc = "aggregate" /\ idx <= Len(events) /\ e = events[idx]

HasPlayerId(e) == e.player.kind = "dict" /\ e.player.id # NoneId

HasOutcomeName(e) ==
    e.detail.kind = "dict" /\ e.detail.outcome \notin {MissingKey, WrongType}

\* by how much the step changes counter c of player k
Delta(k, c) == Count(offensive_metrics', k, c) - Count(offensive_metrics, k, c)

OneIf(cond) == IF cond THEN 1 ELSE 0

\* C13: a well-formed Shot of a player adds 1 to shots, 1 to goals exactly when
\* the outcome is Goal, 1 to shots_on_target exactly when it is Goal or Saved,
\* and nothing to the other four counters.
C13_ShotRule ==
    [][\A e \in EventSet :
          (Processing(e) /\ e.type = "Shot" /\ HasPlayerId(e) /\ HasOutcomeName(e))
              => /\ Delta(e.player.id, "shots") = 1
                 /\ Delta(e.player.id, "goals") = OneIf(e.detail.outcome = "Goal")
                 /\ Delta(e.player.id, "shots_on_target")
                        = OneIf(e.detail.outcome \in {"Goal", "Saved"})
                 /\ \A c \in {"assists", "key_passes", "crosses", "dribbles_completed"} :
                        Delta(e.player.id, c) = 0]_vars

\* C14: a Pass of a player adds 1 to assists, key_passes and crosses each
\* exactly when its own flag is set, and nothing to the shot and dribble counters.
C14_PassRule ==
    [][\A e \in EventSet :
          (Processing(e) /\ e.type = "Pass" /\ HasPlayerId(e) /\ e.detail.kind = "dict")
              => /\ Delta(e.player.id, "assists") = OneIf(e.detail.goal_assist)
                 /\ Delta(e.player.id, "key_passes") = OneIf(e.detail.shot_assist)
                 /\ Delta(e.player.id, "crosses") = OneIf(e.detail.cross)
                 /\ \A c \in {"goals", "shots", "shots_on_target", "dribbles_completed"} :
                        Delta(e.player.id, c) = 0]_vars

\* C15: a record of a player changes no entry but that player's; a Dribble adds
\* 1 to dribbles_completed exactly when its outcome is Complete and nothing
\* else; a record of any other type than Shot, Pass, Dribble changes no counter.
C15_DribbleAndFrame ==
    [][\A e \in EventSet :
          (Processing(e) /\ HasPlayerId(e))
              => /\ \A k \in (DOMAIN offensive_metrics \cup DOMAIN offensive_metrics')
                                 \ {e.player.id} :
                        /\ k \in DOMAIN offensive_metrics
                        /\ k \in DOMAIN offensive_metrics'
                        /\ offensive_metrics'[k] = offensive_metrics[k]
                 /\ (e.type = "Dribble" /\ HasOutcomeName(e)) =>
                        /\ Delta(e.player.id, "dribbles_completed")
                               = OneIf(e.detail.outcome = "Complete")
                        /\ \A c \in Counters \ {"dribbles_completed"} :
                               Delta(e.player.id, c) = 0
                 /\ e.type \notin {"Shot", "Pass", "Dribble", MissingKey} =>
                        \A c \in Counters : Delta(e.player.id, c) = 0]_vars

\* the records among the first n that carry the player id k
Referencing(k, n) ==
    {i \in 1..n : events[i].player.kind = "dict" /\ events[i].player.id = k}

Last(S) == CHOOSE i \in S : \A j \in S : j <= i

\* C16 as stated: the name of each entry is the name carried by the last record
\* that references its player id, whatever that record's type.
C16_NameOfLastReference ==
    pc = "connect" =>
        \A k \in DOMAIN offensive_metrics :
            /\ Referencing(k, Len(events)) # {}
            /\ offensive_metrics[k].name
                   = events[Last(Referencing(k, Len(events)))].player.name

\* the records among the first n that carry the player id k and have a type name
TypedReferencing(k, n) == {i \in Referencing(k, n) : events[i].type # MissingKey}

\* C16 amended: after any prefix of the records the name of each entry is the
\* name carried by the last record that has a type name and references its
\* player id, whatever that type and even when that name is null.
C16_NameOfLastTypedReference ==
    pc \in {"aggregate", "connect"} =>
        \A k \in DOMAIN offensive_metrics :
            /\ TypedReferencing(k, idx - 1) # {}
            /\ offensive_metrics[k].name
                   = events[Last(TypedReferencing(k, idx - 1))].player.name

C16_Witness ==
    /\ pc = "connect"
    /\ Len(events) = 2
    /\ Referencing(1, 2) = {1, 2}
    /\ events[1].player.name = "A"
    /\ events[1].type = "Foul Committed"
    /\ events[2].type = "Dribble"
    /\ events[2].player.name = NullName
    /\ offensive_metrics[1].name = NullName

\* C17: after any prefix of the records every entry has
\* 0 <= goals <= shots_on_target <= shots and no negative counter, and no step
\* lowers a counter or removes an entry.
C17_CounterInvariants ==
    /\ [](\A k \in DOMAIN offensive_metrics :
              /\ 0 <= offensive_metrics[k].goals
              /\ offensive_metrics[k].goals <= offensive_metrics[k].shots_on_target
              /\ offensive_metrics[k].shots_on_target <= offensive_metrics[k].shots
              /\ \A c \in Counters : offensive_metrics[k][c] \in Nat)
    /\ [][\A k \in DOMAIN offensive_metrics :
              /\ k \in DOMAIN offensive_metrics'
              /\ \A c \in Counters :
                     offensive_metrics'[k][c] >= offensive_metrics[k][c]]_vars

C17_Witness ==
    /\ pc = "connect"
    /\ \E k \in DOMAIN offensive_metrics :
           /\ offensive_metrics[k].goals = 1
           /\ offensive_metrics[k].shots_on_target = 1
           /\ offensive_metrics[k].shots = 2
    /\ \E i \in DOMAIN events : ~Parsed(events[i])

=============================================================================
